---- MODULE Spec2Model ----
(***************************************************************************)
(* allauth/account/managers.py: the manager of EmailAddress rows           *)
(* (EmailAddressManagerMixin) and the manager of EmailConfirmation rows    *)
(* (EmailConfirmationManager), as state machines over the two tables.      *)
(***************************************************************************)
EXTENDS Integers, Sequences, FiniteSets, TLC

\* ------------------------------------------------------------------------
\* Bounds of the model
\* ------------------------------------------------------------------------
\* EmailAddress rows ever inserted.
MaxRows == 2
\* Largest MAX_EMAIL_ADDRESSES value configured.
MaxLimit == 2
\* Longest list handed to fill_cache_for_user.
MaxCache == 2
\* EmailConfirmation rows ever inserted.
MaxConfs == 2
\* The clock runs over 0..MaxTime, in days.
MaxTime == 3
\* Largest EMAIL_CONFIRMATION_EXPIRE_DAYS value configured.
MaxExpireDays == 2

Users == {"u1", "u2"}
Requests == {"r1", "r2"}

\* Email strings, as sequences of characters.
Emails == {<<"a", "x">>, <<"A", "x">>, <<"b", "x">>}

\* Python None / an absent attribute, and a present value.
NoneVal == <<>>
Some(x) == <<x>>

\* ------------------------------------------------------------------------
\* Strings
\* ------------------------------------------------------------------------
LowerChar(c) ==
    CASE c = "A" -> "a"
      [] c = "B" -> "b"
      [] c = "X" -> "x"
      [] OTHER -> c

Lower(s) == [i \in 1..Len(s) |-> LowerChar(s[i])]

\* The email__iexact lookup of the query layer.
IExact(a, b) == Lower(a) = Lower(b)

\* ------------------------------------------------------------------------
\* Rows and the query layer
\* ------------------------------------------------------------------------
NoUser == "-"
NoEmail == <<>>

\* The absent EmailAddress (Python None).
NoRow == [id |-> 0, user |-> NoUser, email |-> NoEmail,
          verified |-> FALSE, primary |-> FALSE]

\* A freshly inserted EmailAddress: the flags take their defaults.
NewRow(id, user, email) ==
    [id |-> id, user |-> user, email |-> email,
     verified |-> FALSE, primary |-> FALSE]

TheOne(S) == CHOOSE x \in S : TRUE

\* Manager.get() over the rows that match: one row, or one of two exceptions.
Get(matching) ==
    IF matching = {}
    THEN [status |-> "DoesNotExist", obj |-> NoRow]
    ELSE IF Cardinality(matching) > 1
    THEN [status |-> "MultipleObjectsReturned", obj |-> NoRow]
    ELSE [status |-> "returned", obj |-> TheOne(matching)]

\* All orders in which the store may hand back a set of rows (no order_by).
Orders(S) ==
    {s \in [1..Cardinality(S) -> S] : \A i, j \in 1..Cardinality(S) : s[i] = s[j] => i = j}

\* ------------------------------------------------------------------------
\* EmailAddressManagerMixin
\* ------------------------------------------------------------------------
Truthy(m) == m # NoneVal /\ m[1] # 0

UserRows(store, user) == {r \in store : r.user = user}

\* can_add_email with the comparison off by one (count <= MAX_EMAIL_ADDRESSES).
can_add_email_le(store, max, user) ==
    IF Truthy(max)
    THEN [ret |-> Cardinality(UserRows(store, user)) <= max[1], queries |-> <<"count">>]
    ELSE [ret |-> TRUE, queries |-> <<>>]

can_add_email(store, max, user) ==
    IF Truthy(max)
    THEN [ret |-> Cardinality(UserRows(store, user)) < max[1], queries |-> <<"count">>]
    ELSE [ret |-> TRUE, queries |-> <<>>]

\* The lookup with email=email in place of email__iexact=email.
MatchesExact(r, user, email) == r.user = user /\ r.email = email

\* The lookup of get_or_create: user=user, email__iexact=email.
Matches(r, user, email) == r.user = user /\ IExact(r.email, email)

Lookup(store, user, email) == Get({r \in store : Matches(r, user, email)})

\* The insert against a store that enforces uniqueness on (user, lower(email)):
\* the insert fails and get_or_create fetches the row that is there.
CreateUnique(store, id, user, email) ==
    LET m == {r \in store : Matches(r, user, email)}
    IN  IF m = {}
        THEN [status |-> "returned", obj |-> NewRow(id, user, email), created |-> TRUE,
              store |-> store \cup {NewRow(id, user, email)}]
        ELSE [status |-> "returned", obj |-> TheOne(m), created |-> FALSE,
              store |-> store]

\* The insert of get_or_create: defaults={"email": email}; the store enforces
\* no uniqueness on (user, lower(email)).
Create(store, id, user, email) ==
    [status |-> "returned", obj |-> NewRow(id, user, email), created |-> TRUE,
     store |-> store \cup {NewRow(id, user, email)}]

get_or_create(store, id, user, email) ==
    LET g == Lookup(store, user, email)
    IN  IF g.status = "DoesNotExist"
        THEN Create(store, id, user, email)
        ELSE [status |-> g.status, obj |-> g.obj, created |-> FALSE, store |-> store]

\* add_email testing confirm alone.
ShouldConfirmAlways(created, confirm) == confirm

ShouldConfirm(created, confirm) == created /\ confirm

\* The send_confirmation calls add_email makes once get_or_create has returned.
Sends(obj, created, confirm, signup) ==
    IF ShouldConfirm(created, confirm)
    THEN <<[address |-> obj.id, signup |-> signup]>>
    ELSE <<>>

get_primary(store, user) ==
    LET g == Get({r \in store : r.user = user /\ r.primary})
    IN  IF g.status = "DoesNotExist"
        THEN [status |-> "returned", ret |-> NoRow]
        ELSE [status |-> g.status, ret |-> g.obj]

UsersForRows(store, email) == {r \in store : r.verified /\ IExact(r.email, email)}

\* [address.user for address in self.filter(...)], for one order of the rows.
get_users_for(ordered) == [i \in 1..Len(ordered) |-> ordered[i].user]

RECURSIVE Scan(_, _)
Scan(addresses, email) ==
    IF addresses = <<>>
    THEN [status |-> "DoesNotExist", ret |-> NoRow]
    ELSE IF Lower(Head(addresses).email) = Lower(email)
    THEN [status |-> "returned", ret |-> Head(addresses)]
    ELSE Scan(Tail(addresses), email)

\* get_for_user testing "not addresses" in place of "addresses is None".
CacheIsFalsy(c) == c = NoneVal \/ c[1] = <<>>

CacheIsNone(c) == c = NoneVal

get_for_user(store, c, user, email) ==
    IF CacheIsNone(c)
    THEN LET g == Lookup(store, user, email)
         IN  [status |-> g.status, ret |-> g.obj, queries |-> <<"get">>]
    ELSE LET s == Scan(c[1], email)
         IN  [status |-> s.status, ret |-> s.ret, queries |-> <<>>]

\* ------------------------------------------------------------------------
\* EmailConfirmationManager
\* ------------------------------------------------------------------------
\* The threshold with the days added instead of subtracted.
sent_threshold_plus(t, days) == t + days

\* timezone.now() - timedelta(days=EMAIL_CONFIRMATION_EXPIRE_DAYS)
sent_threshold(t, days) == t - days

\* Q(sent__lte=sent_threshold)
expired_q_lte(c, t, days) == c.sent <= sent_threshold(t, days)

\* Q(sent__lt=sent_threshold)
expired_q(c, t, days) == c.sent < sent_threshold(t, days)

all_expired(table, t, days) == {c \in table : expired_q(c, t, days)}

all_valid(table, t, days) == {c \in table : ~expired_q(c, t, days)}

\* The sweep deleting all_valid() instead of all_expired().
delete_valid_confirmations(table, t, days) == table \ all_valid(table, t, days)

delete_expired_confirmations(table, t, days) == table \ all_expired(table, t, days)

\* ------------------------------------------------------------------------
\* State
\* ------------------------------------------------------------------------
VARIABLES
    rows,       \* the EmailAddress table
    nextId,     \* its next primary key
    cache,      \* user._emailaddress_cache, per user object
    settings,   \* app_settings, read at call time
    req,        \* the add_email calls in flight, one per request
    confs,      \* the EmailConfirmation table
    nextConf,   \* its next primary key
    now,        \* timezone.now(), in days
    seen,       \* per confirmation id, the settings under which all_expired() returned it
    last        \* the call that has just returned: arguments, outcome, effects

vars == <<rows, nextId, cache, settings, req, confs, nextConf, now, seen, last>>

MaxValues == {NoneVal} \cup {Some(m) : m \in 0..MaxLimit}
ExpireValues == 0..MaxExpireDays

Idle ==
    [op |-> "none", user |-> NoUser, email |-> NoEmail, confirm |-> FALSE,
     signup |-> FALSE, status |-> "returned", ret |-> NoRow, created |-> FALSE,
     sends |-> <<>>, queries |-> <<>>]

IdleReq ==
    [pc |-> "idle", user |-> NoUser, email |-> NoEmail, confirm |-> FALSE,
     signup |-> FALSE]

\* An empty store, no cache, MAX_EMAIL_ADDRESSES unset.
Init ==
    /\ rows = {}
    /\ nextId = 1
    /\ cache = [u \in Users |-> NoneVal]
    /\ settings = [MAX_EMAIL_ADDRESSES |-> NoneVal,
                   EMAIL_CONFIRMATION_EXPIRE_DAYS |-> MaxExpireDays]
    /\ req = [r \in Requests |-> IdleReq]
    /\ confs = {}
    /\ nextConf = 1
    /\ now = 0
    /\ seen = [i \in {} |-> 0]
    /\ last = Idle

\* ------------------------------------------------------------------------
\* The address manager, one call at a time
\* ------------------------------------------------------------------------
CanAddEmail ==
    \E u \in Users :
        LET c == can_add_email(rows, settings.MAX_EMAIL_ADDRESSES, u)
        IN  /\ last' = [Idle EXCEPT !.op = "can_add_email", !.user = u,
                                    !.ret = c.ret, !.queries = c.queries]
            /\ UNCHANGED <<rows, nextId, cache, settings, req, confs, nextConf, now, seen>>

AddEmail ==
    \E u \in Users, e \in Emails, confirm \in BOOLEAN, signup \in BOOLEAN :
        LET g == get_or_create(rows, nextId, u, e)
        IN  /\ g.created => Cardinality(rows) < MaxRows
            /\ rows' = g.store
            /\ nextId' = IF g.created THEN nextId + 1 ELSE nextId
            /\ last' = [Idle EXCEPT !.op = "add_email", !.user = u, !.email = e,
                                    !.confirm = confirm, !.signup = signup,
                                    !.status = g.status, !.ret = g.obj,
                                    !.created = g.created,
                                    !.sends = IF g.status = "returned"
                                              THEN Sends(g.obj, g.created, confirm, signup)
                                              ELSE <<>>,
                                    !.queries = <<"get_or_create">>]
            /\ UNCHANGED <<cache, settings, req, confs, nextConf, now, seen>>

GetPrimary ==
    \E u \in Users :
        LET g == get_primary(rows, u)
        IN  /\ last' = [Idle EXCEPT !.op = "get_primary", !.user = u,
                                    !.status = g.status, !.ret = g.ret,
                                    !.queries = <<"get">>]
            /\ UNCHANGED <<rows, nextId, cache, settings, req, confs, nextConf, now, seen>>

GetUsersFor ==
    \E e \in Emails :
        \E ordered \in Orders(UsersForRows(rows, e)) :
            /\ last' = [Idle EXCEPT !.op = "get_users_for", !.email = e,
                                    !.ret = get_users_for(ordered),
                                    !.queries = <<"filter">>]
            /\ UNCHANGED <<rows, nextId, cache, settings, req, confs, nextConf, now, seen>>

\* Lists of at most n distinct rows among the given ones.
ListsOf(S, n) ==
    {s \in UNION {[1..k -> S] : k \in 0..n} :
        \A i, j \in 1..Len(s) : s[i] = s[j] => i = j}

FillCacheForUser ==
    \E u \in Users :
        \E addresses \in ListsOf(UserRows(rows, u), MaxCache) :
            /\ cache' = [cache EXCEPT ![u] = Some(addresses)]
            /\ last' = [Idle EXCEPT !.op = "fill_cache_for_user", !.user = u]
            /\ UNCHANGED <<rows, nextId, settings, req, confs, nextConf, now, seen>>

GetForUser ==
    \E u \in Users, e \in Emails :
        LET g == get_for_user(rows, cache[u], u, e)
        IN  /\ last' = [Idle EXCEPT !.op = "get_for_user", !.user = u, !.email = e,
                                    !.status = g.status, !.ret = g.ret,
                                    !.queries = g.queries]
            /\ UNCHANGED <<rows, nextId, cache, settings, req, confs, nextConf, now, seen>>

\* ------------------------------------------------------------------------
\* What the rest of the application does to the store and the settings
\* ------------------------------------------------------------------------
SetVerified ==
    \E r \in rows, b \in BOOLEAN :
        /\ r.verified # b
        /\ rows' = (rows \ {r}) \cup {[r EXCEPT !.verified = b]}
        /\ last' = Idle
        /\ UNCHANGED <<nextId, cache, settings, req, confs, nextConf, now, seen>>

SetPrimary ==
    \E r \in rows, b \in BOOLEAN :
        /\ r.primary # b
        /\ rows' = (rows \ {r}) \cup {[r EXCEPT !.primary = b]}
        /\ last' = Idle
        /\ UNCHANGED <<nextId, cache, settings, req, confs, nextConf, now, seen>>

ConfigureMax ==
    \E m \in MaxValues :
        /\ m # settings.MAX_EMAIL_ADDRESSES
        /\ settings' = [settings EXCEPT !.MAX_EMAIL_ADDRESSES = m]
        /\ last' = Idle
        /\ UNCHANGED <<rows, nextId, cache, req, confs, nextConf, now, seen>>

Next ==
    \/ CanAddEmail
    \/ AddEmail
    \/ GetPrimary
    \/ SetPrimary
    \/ ConfigureMax

Spec == Init /\ [][Next]_vars

\* ------------------------------------------------------------------------
\* add_email from two requests at once: get_or_create is a lookup followed by
\* an insert, and the other request may run between the two.
\* ------------------------------------------------------------------------
Creating == {q \in Requests : req[q].pc = "create"}

\* flags: the values of confirm and signup the callers pass.
AddEmailLookup(r, flags) ==
    /\ req[r].pc = "idle"
    /\ \E u \in Users, e \in Emails, confirm \in flags, signup \in flags :
          LET g == Lookup(rows, u, e)
          IN  IF g.status = "DoesNotExist"
              THEN /\ Cardinality(rows) + Cardinality(Creating) < MaxRows
                   /\ req' = [req EXCEPT ![r] = [pc |-> "create", user |-> u,
                                                 email |-> e, confirm |-> confirm,
                                                 signup |-> signup]]
                   /\ last' = Idle
              ELSE /\ req' = req
                   /\ last' = [Idle EXCEPT !.op = "add_email", !.user = u, !.email = e,
                                           !.confirm = confirm, !.signup = signup,
                                           !.status = g.status, !.ret = g.obj,
                                           !.sends = IF g.status = "returned"
                                                     THEN Sends(g.obj, FALSE, confirm, signup)
                                                     ELSE <<>>,
                                           !.queries = <<"get_or_create">>]
    /\ UNCHANGED <<rows, nextId, cache, settings, confs, nextConf, now, seen>>

AddEmailCreate(r) ==
    /\ req[r].pc = "create"
    /\ LET a == req[r]
           g == Create(rows, nextId, a.user, a.email)
       IN  /\ rows' = g.store
           /\ nextId' = IF g.created THEN nextId + 1 ELSE nextId
           /\ last' = [Idle EXCEPT !.op = "add_email", !.user = a.user,
                                   !.email = a.email, !.confirm = a.confirm,
                                   !.signup = a.signup, !.status = g.status,
                                   !.ret = g.obj, !.created = g.created,
                                   !.sends = Sends(g.obj, g.created, a.confirm, a.signup),
                                   !.queries = <<"get_or_create">>]
    /\ req' = [req EXCEPT ![r] = IdleReq]
    /\ UNCHANGED <<cache, settings, confs, nextConf, now, seen>>

\* The per-user cache, next to add_email calls from two requests.
NextCache ==
    \/ \E r \in Requests : AddEmailLookup(r, {FALSE})
    \/ \E r \in Requests : AddEmailCreate(r)
    \/ FillCacheForUser
    \/ GetForUser

SpecCache == Init /\ [][NextCache]_vars

NextRace ==
    \/ \E r \in Requests : AddEmailLookup(r, BOOLEAN)
    \/ \E r \in Requests : AddEmailCreate(r)
    \/ SetVerified
    \/ GetUsersFor

SpecRace == Init /\ [][NextRace]_vars

\* ------------------------------------------------------------------------
\* The confirmation manager
\* ------------------------------------------------------------------------
\* The store after add_email for two users.
SeedStore ==
    get_or_create(get_or_create({}, 1, "u1", <<"a", "x">>).store,
                  2, "u2", <<"b", "x">>).store

InitConf ==
    /\ rows = SeedStore
    /\ nextId = Cardinality(SeedStore) + 1
    /\ cache = [u \in Users |-> NoneVal]
    /\ settings \in [MAX_EMAIL_ADDRESSES : {NoneVal},
                     EMAIL_CONFIRMATION_EXPIRE_DAYS : ExpireValues]
    /\ req = [r \in Requests |-> IdleReq]
    /\ confs = {}
    /\ nextConf = 1
    /\ now = 0
    /\ seen = [i \in {} |-> 0]
    /\ last = Idle

\* A confirmation is requested for an address: a row with sent = now.
CreateConfirmation ==
    \E r \in rows :
        /\ nextConf <= MaxConfs
        /\ confs' = confs \cup {[id |-> nextConf, email_address |-> r.id, sent |-> now]}
        /\ nextConf' = nextConf + 1
        /\ last' = Idle
        /\ UNCHANGED <<rows, nextId, cache, settings, req, now, seen>>

Tick ==
    /\ now < MaxTime
    /\ now' = now + 1
    /\ last' = Idle
    /\ UNCHANGED <<rows, nextId, cache, settings, req, confs, nextConf, seen>>

ConfigureExpire ==
    \E d \in ExpireValues :
        /\ d # settings.EMAIL_CONFIRMATION_EXPIRE_DAYS
        /\ settings' = [settings EXCEPT !.EMAIL_CONFIRMATION_EXPIRE_DAYS = d]
        /\ last' = Idle
        /\ UNCHANGED <<rows, nextId, cache, req, confs, nextConf, now, seen>>

Max(a, b) == IF a >= b THEN a ELSE b

\* seen remembers, for each stored confirmation that all_expired() has returned,
\* the largest EMAIL_CONFIRMATION_EXPIRE_DAYS under which it did.
Remember(s, expired, days) ==
    [i \in DOMAIN s \cup {c.id : c \in expired} |->
        IF i \in DOMAIN s
        THEN (IF i \in {c.id : c \in expired} THEN Max(s[i], days) ELSE s[i])
        ELSE days]

Forget(s, table) == [i \in DOMAIN s \cap {c.id : c \in table} |-> s[i]]

AllExpired ==
    LET e == all_expired(confs, now, settings.EMAIL_CONFIRMATION_EXPIRE_DAYS)
    IN  /\ last' = [Idle EXCEPT !.op = "all_expired", !.ret = e, !.queries = <<"filter">>]
        /\ seen' = Remember(seen, e, settings.EMAIL_CONFIRMATION_EXPIRE_DAYS)
        /\ UNCHANGED <<rows, nextId, cache, settings, req, confs, nextConf, now>>

AllValid ==
    /\ last' = [Idle EXCEPT !.op = "all_valid",
                            !.ret = all_valid(confs, now,
                                              settings.EMAIL_CONFIRMATION_EXPIRE_DAYS),
                            !.queries = <<"exclude">>]
    /\ UNCHANGED <<rows, nextId, cache, settings, req, confs, nextConf, now, seen>>

DeleteExpiredConfirmations ==
    /\ confs' = delete_expired_confirmations(confs, now,
                                             settings.EMAIL_CONFIRMATION_EXPIRE_DAYS)
    /\ seen' = Forget(seen, confs')
    /\ last' = [Idle EXCEPT !.op = "delete_expired_confirmations",
                            !.queries = <<"delete">>]
    /\ UNCHANGED <<rows, nextId, cache, settings, req, nextConf, now>>

NextConf ==
    \/ CreateConfirmation
    \/ Tick
    \/ ConfigureExpire
    \/ AllExpired
    \/ AllValid
    \/ DeleteExpiredConfirmations

SpecConf == InitConf /\ [][NextConf]_vars

\* ========================================================================
\* Properties
\* ========================================================================
CountOf(u) == Cardinality({r \in rows : r.user = u})

Existing(u, e) == {r \in rows : r.user = u /\ Lower(r.email) = Lower(e)}

\* C1: with MAX_EMAIL_ADDRESSES = M > 0, can_add_email(U) is true exactly when
\* U owns fewer than M rows; with M 0 or unset it is true whatever U owns; the
\* call changes no stored record.
C1_CanAddEmail ==
    [][last'.op = "can_add_email" =>
        LET m == settings.MAX_EMAIL_ADDRESSES
            n == CountOf(last'.user)
        IN  /\ (m # NoneVal /\ m[1] > 0) => (last'.ret <=> n < m[1])
            /\ (m = NoneVal \/ m[1] = 0) => last'.ret = TRUE
            /\ rows' = rows
            /\ confs' = confs
            /\ cache' = cache]_vars

\* C1 witness: a limit is configured and the user has reached it.
C1_Witness ==
    /\ last.op = "can_add_email"
    /\ last.ret = FALSE
    /\ settings.MAX_EMAIL_ADDRESSES # NoneVal
    /\ CountOf(last.user) = settings.MAX_EMAIL_ADDRESSES[1]
    /\ CountOf(last.user) > 0

\* C2: one add_email call at a time, a user never has two rows whose emails
\* are equal ignoring case: a call for an email that is already stored in some
\* casing returns that row, inserts nothing and leaves its casing as stored.
C2_AddEmailDedupe ==
    [][last'.op = "add_email" =>
        /\ \A r1, r2 \in rows' :
              (r1.user = r2.user /\ Lower(r1.email) = Lower(r2.email)) => r1 = r2
        /\ \A r \in Existing(last'.user, last'.email) :
              /\ last'.status = "returned"
              /\ last'.ret = r
              /\ rows' = rows
        /\ Existing(last'.user, last'.email) = {} =>
              /\ last'.ret.email = last'.email
              /\ last'.ret.user = last'.user
              /\ rows' = rows \cup {last'.ret}]_vars

\* C2 witness: the second call, in another casing, got the first call's row.
C2_Witness ==
    /\ last.op = "add_email"
    /\ ~last.created
    /\ last.ret \in rows
    /\ last.ret.email # last.email
    /\ Lower(last.ret.email) = Lower(last.email)

\* C3: an add_email call makes one send_confirmation call, with the signup it
\* was given, on the row it created, when the row is new and confirm is true;
\* it makes none when the row existed or confirm is false.
C3_SendConfirmation ==
    [][last'.op = "add_email" =>
        IF Existing(last'.user, last'.email) = {} /\ last'.confirm
        THEN /\ last'.ret \in rows' \ rows
             /\ last'.sends = <<[address |-> last'.ret.id, signup |-> last'.signup]>>
        ELSE last'.sends = <<>>]_vars

\* C3 witness: a new row, confirm and signup both true, one send.
C3_Witness ==
    /\ last.op = "add_email"
    /\ last.created
    /\ last.confirm
    /\ last.signup
    /\ Len(last.sends) = 1
    /\ last.sends[1].signup

Primaries(u) == {r \in rows : r.user = u /\ r.primary}

\* C4: in every store state get_primary(U) returns a primary row of U, or None
\* when U has no primary row; it never raises.
C4_GetPrimaryNeverRaises ==
    last.op = "get_primary" =>
        /\ last.status = "returned"
        /\ IF Primaries(last.user) = {}
           THEN last.ret = NoRow
           ELSE last.ret \in Primaries(last.user)

VerifiedOwners(e) ==
    {u \in Users : \E r \in rows : r.user = u /\ r.verified /\ Lower(r.email) = Lower(e)}

\* C5: get_users_for(e) is a sequence of distinct users, holding exactly the
\* users that own a verified row whose email equals e ignoring case.
C5_GetUsersForDistinct ==
    last.op = "get_users_for" =>
        /\ {last.ret[i] : i \in 1..Len(last.ret)} = VerifiedOwners(last.email)
        /\ \A i, j \in 1..Len(last.ret) : last.ret[i] = last.ret[j] => i = j

FirstHit(list, e) ==
    LET hits == {i \in 1..Len(list) : Lower(list[i].email) = Lower(e)}
    IN  IF hits = {} THEN 0 ELSE CHOOSE i \in hits : \A j \in hits : i <= j

\* C6: once fill_cache_for_user(U, addresses) has been called the cache stays
\* filled, and get_for_user(U, email) makes no store query: it returns the first
\* cached record whose email equals the given one ignoring case, and raises
\* DoesNotExist when there is none, whatever the store holds.
C6_CacheOnly ==
    [][/\ \A u \in Users : cache[u] # NoneVal => cache'[u] # NoneVal
       /\ (last'.op = "get_for_user" /\ cache[last'.user] # NoneVal) =>
            LET list == cache[last'.user][1]
                k == FirstHit(list, last'.email)
            IN  /\ last'.queries = <<>>
                /\ rows' = rows
                /\ IF k = 0
                   THEN last'.status = "DoesNotExist"
                   ELSE last'.status = "returned" /\ last'.ret = list[k]]_vars

\* C6 witness: the cache is filled, the store holds a matching row of the user,
\* and the lookup still raised DoesNotExist without a query.
C6_Witness ==
    /\ last.op = "get_for_user"
    /\ cache[last.user] # NoneVal
    /\ last.status = "DoesNotExist"
    /\ last.queries = <<>>
    /\ Existing(last.user, last.email) # {}

Threshold == now - settings.EMAIL_CONFIRMATION_EXPIRE_DAYS

\* C7: at one time, with T = now - EMAIL_CONFIRMATION_EXPIRE_DAYS, all_expired()
\* and all_valid() split the stored confirmations in two: all_expired() is the
\* rows with sent < T, all_valid() the others, a row with sent = T among them.
C7_Partition ==
    LET d == settings.EMAIL_CONFIRMATION_EXPIRE_DAYS
        E == all_expired(confs, now, d)
        V == all_valid(confs, now, d)
    IN  /\ E \cup V = confs
        /\ E \cap V = {}
        /\ E = {c \in confs : c.sent < Threshold}
        /\ \A c \in confs : c.sent = Threshold => c \in V
        /\ last.op = "all_expired" => last.ret = {c \in confs : c.sent < Threshold}
        /\ last.op = "all_valid" => last.ret = {c \in confs : c.sent >= Threshold}

\* C7 witness: all_valid() returned a row sent exactly at the threshold and left
\* out an older one.
C7_Witness ==
    /\ last.op = "all_valid"
    /\ \E c \in last.ret : c.sent = Threshold
    /\ \E c \in confs : c.sent < Threshold /\ c \notin last.ret

\* C8: delete_expired_confirmations() removes the rows all_expired() would have
\* returned just before it, keeps the rows all_valid() would have returned, and
\* touches no EmailAddress row.
C8_DeleteExpired ==
    [][last'.op = "delete_expired_confirmations" =>
        /\ confs \ confs' = {c \in confs : c.sent < Threshold}
        /\ {c \in confs : c.sent >= Threshold} \subseteq confs'
        /\ confs' \subseteq confs
        /\ rows' = rows]_vars

\* C8 witness: the sweep deleted a row and kept another, next to stored addresses.
C8_Witness ==
    /\ last.op = "delete_expired_confirmations"
    /\ confs # {}
    /\ Cardinality(confs) < nextConf - 1
    /\ rows # {}

\* C9 as stated: a stored confirmation that all_expired() has returned is in
\* every later all_expired() and in no later all_valid().
C9_NeverBackFromExpired ==
    /\ last.op = "all_expired" => \A c \in confs : c.id \in DOMAIN seen => c \in last.ret
    /\ last.op = "all_valid" => \A c \in last.ret : c.id \notin DOMAIN seen

\* C9 amended: a stored confirmation that all_expired() has returned is in every
\* later all_expired(), and in no later all_valid(), that is evaluated with an
\* EMAIL_CONFIRMATION_EXPIRE_DAYS no larger than at that earlier call.
C9_ExpiredWhileDaysNotRaised ==
    LET d == settings.EMAIL_CONFIRMATION_EXPIRE_DAYS
        old == {c \in confs : c.id \in DOMAIN seen /\ d <= seen[c.id]}
    IN  /\ last.op = "all_expired" => old \subseteq last.ret
        /\ last.op = "all_valid" => old \cap last.ret = {}

\* C9 witness: a row returned as expired earlier, under a larger setting, and
\* all_valid() called at a later time.
C9_Witness ==
    /\ last.op = "all_valid"
    /\ \E c \in confs :
          /\ c.id \in DOMAIN seen
          /\ settings.EMAIL_CONFIRMATION_EXPIRE_DAYS < seen[c.id]
          /\ c \notin last.ret
    /\ \E c \in last.ret : TRUE

\* C10: nothing stands between a request's lookup and its insert: a request
\* whose lookup found no row inserts its own row and reports it created, with
\* a send when confirm is true, whatever the other request has inserted since.
C10_InsertAfterMiss ==
    [][\A r \in Requests :
        (req[r].pc = "create" /\ req'[r].pc = "idle") =>
            /\ last'.op = "add_email"
            /\ last'.created
            /\ last'.ret \notin rows
            /\ rows' = rows \cup {last'.ret}
            /\ last'.ret.user = req[r].user
            /\ last'.ret.email = req[r].email
            /\ Len(last'.sends) = IF req[r].confirm THEN 1 ELSE 0]_vars

\* C10 witness: two rows for one user and one email ignoring case, the second
\* inserted by a call that sent a confirmation of its own.
C10_Witness ==
    /\ last.op = "add_email"
    /\ last.created
    /\ Len(last.sends) = 1
    /\ \E r \in rows :
          /\ r # last.ret
          /\ r.user = last.ret.user
          /\ Lower(r.email) = Lower(last.ret.email)

====
